---- MODULE Spec2Model ----
(***************************************************************************)
(* MegatronTrainer (swift/megatron/train/trainers/trainer.py): the cyclic  *)
(* epoch iterator, the train_step interceptor and the evaluation loop with *)
(* its fleet-wide time-limit exit.                                         *)
(*                                                                         *)
(* Spec      one worker process through a whole run: the training loop     *)
(*           requests steps, each step pulls microbatches from the cyclic  *)
(*           training iterator, and evaluate is called between steps.      *)
(* SpecFleet NumWorkers processes inside one evaluate call, meeting at the *)
(*           all_reduce of the time-limit flag.                            *)
(* SpecEval  one process of a group in one evaluate call, with every       *)
(*           choice of collectors, pipeline stage and loss reports.        *)
(* SpecTrain one process from train(): initialize_megatron derives the     *)
(*           iteration counts, then the training loop runs.                *)
(* SpecRetry as Spec without evaluate, with a caller that goes on calling  *)
(*           train_step after a step asked it to exit.                     *)
(***************************************************************************)
EXTENDS Integers, Sequences, FiniteSets, TLC

\* ---------------------------------------------------------------- bounds
MaxLen == 2          \* batches in one pass over a dataset: 0..MaxLen
MaxEpochs == 2       \* args.max_epochs: None, 0..MaxEpochs
MaxTrainIters == 3   \* args.train_iters: 1..MaxTrainIters
MaxEvalIters == 2    \* args.eval_iters: 0..MaxEvalIters
MaxMicro == 2        \* microbatches per step: 1..MaxMicro
MaxEvals == 1        \* evaluate calls in one run of Spec
NumWorkers == 2      \* processes of SpecFleet; the group size of SpecEval
MaxSamples == 10     \* samples of a dataset in SpecTrain: 0..MaxSamples
MaxRetries == 2      \* train_step calls SpecRetry makes after the run was told to exit

VARIABLES
    args,                 \* the run configuration (get_args()), the parameters of
                          \* evaluate and the mode the rerun state machine starts
                          \* in; written by initialize_megatron only
    datasets,             \* train_dataset and val_dataset as given to train()
    given,                \* train_iters and eval_iters as the command line gave them
    collectives,          \* collective calls this process has entered
    is_training,          \* args.is_training, per process
    train_data_iterator,  \* the cyclic iterator over the training loader
    valid_data_iterator,  \* the cyclic iterator over the validation loader
    pc,                   \* where each process is
    mb,                   \* microbatches the engine has fetched in this call
    step_result,          \* what the last train_step call returned
    exc,                  \* what the engine raised inside the last train_step
    iteration,            \* the training loop's step counter
    requested,            \* train_step calls made so far
    executed,             \* train_step calls the engine completed
    run,                  \* the training loop: running / exited / finished
    evals,                \* evaluate calls made so far
    eval_iteration,       \* `iteration` of evaluate
    model_mode,           \* "train" or "eval": the mode of the model modules
    rerun_state_machine,  \* the mode of the rerun state machine
    rerun_mode,           \* evaluate's local: the mode it found on entry
    local_done,           \* train_time > exit_duration_in_mins as this process saw it
    done_cuda,            \* the time-limit flag tensor of this iteration
    eval_result,          \* what the last evaluate call returned
    total_loss_dict,      \* evaluate's accumulator: key -> <<numerator, denominator>>
    iter_start_loss_dict, \* total_loss_dict as the current loop pass found it
    reported,             \* how often the engine returned each loss dictionary
    consumed_valid_samples, \* args.consumed_valid_samples
    forward_calls,        \* forward-only engine calls made in evaluate's loop
    reductions,           \* time-limit all_reduce calls entered in this evaluate
    aux_passes            \* forward passes made with collect_non_loss_data

iterVars == <<train_data_iterator, valid_data_iterator>>
loopVars == <<iteration, requested, executed, run, step_result, exc>>
evalVars == <<evals, eval_iteration, model_mode, rerun_state_machine, rerun_mode,
              local_done, done_cuda, eval_result>>
accVars == <<total_loss_dict, iter_start_loss_dict, reported, consumed_valid_samples,
             forward_calls, reductions, aux_passes>>
startVars == <<datasets, given, collectives>>
vars == <<args, startVars, is_training, pc, mb, iterVars, loopVars, evalVars, accVars>>

Workers == DOMAIN pc

\* ------------------------------------------------------------ Python values
\* An optional integer is <<>> (None) or <<n>>.
None == <<>>
Some(n) == <<n>>

\* bool(x) of an optional integer: None and 0 are false, every other integer true.
Truthy(x) == x # None /\ x[1] # 0

RerunModes == {"DISABLED", "VALIDATE_RESULTS", "REPORT_DETERMINISM_STATS"}

\* ------------------------------------------------------- new_cyclic_iter
\* A generator of new_cyclic_iter over a loader of `len` batches.
\*   i    the epoch index
\*   pos  batches of the current pass already yielded (the for loop's position)
\*   st   "created" (not started), "suspended" (stopped at the yield), "ended"
\*        (left the while loop: every next() raises StopIteration), "hung" (a
\*        next() on an empty loader that nothing stops: the loop spins for ever)
\*   yielded, last  history: batches yielded so far, the batch yielded last
NewCyclicIter(len) ==
    [len |-> len, i |-> 0, pos |-> 0, st |-> "created", yielded |-> 0, last |-> 0]

\* Lines 67-70 without the is_training test.
StopsUngated(max_epochs, i, training) == Truthy(max_epochs) /\ i >= max_epochs[1]

\* Lines 67-70 with `i > max_epochs`.
StopsLate(max_epochs, i, training) ==
    training /\ Truthy(max_epochs) /\ i > max_epochs[1]

\* Lines 67-70 with `max_epochs is not None` for the truth test.
StopsOnZero(max_epochs, i, training) ==
    training /\ max_epochs # None /\ i >= max_epochs[1]

\* Lines 67-70: the while loop is left when this holds at its top.
Stops(max_epochs, i, training) ==
    training /\ Truthy(max_epochs) /\ i >= max_epochs[1]

\* Line 74 with the increment made only inside the training context.
ExhaustedGated(it, training) ==
    [it EXCEPT !.i = IF training THEN @ + 1 ELSE @, !.pos = 0]

\* Line 74: the for loop over the loader has run out.
Exhausted(it, training) == [it EXCEPT !.i = @ + 1, !.pos = 0]

\* The generator at the top of `while True` with epoch index it.i. Over an
\* empty loader the for loop yields nothing and the while loop goes round
\* again; it comes to an end only if line 68 can become true.
RECURSIVE LoopTop(_, _, _)
LoopTop(it, max_epochs, training) ==
    IF Stops(max_epochs, it.i, training)
    THEN [it EXCEPT !.st = "ended"]
    ELSE IF it.len > 0
    THEN [it EXCEPT !.pos = 1, !.st = "suspended", !.yielded = @ + 1, !.last = 1]
    ELSE IF ~(training /\ Truthy(max_epochs))
    THEN [it EXCEPT !.st = "hung"]
    ELSE LoopTop(Exhausted(it, training), max_epochs, training)

\* next() on a generator that starts over when it is called after its end.
CyclicNextRestarts(it, max_epochs, training) ==
    IF it.st \in {"created", "ended"}
    THEN LoopTop([it EXCEPT !.i = 0, !.pos = 0], max_epochs, training)
    ELSE IF it.st # "suspended" THEN it
    ELSE IF it.pos < it.len
    THEN [it EXCEPT !.pos = @ + 1, !.yielded = @ + 1, !.last = it.pos + 1]
    ELSE LoopTop(Exhausted(it, training), max_epochs, training)

\* next(generator), with args.is_training = training at the time of the call.
\* The generator it returns has st = "suspended" iff a batch was yielded.
CyclicNext(it, max_epochs, training) ==
    IF it.st = "created" THEN LoopTop(it, max_epochs, training)
    ELSE IF it.st # "suspended" THEN it
    ELSE IF it.pos < it.len
    THEN [it EXCEPT !.pos = @ + 1, !.yielded = @ + 1, !.last = it.pos + 1]
    ELSE LoopTop(Exhausted(it, training), max_epochs, training)

\* The engine pulling n batches, one next() each, until one is refused.
RECURSIVE FetchN(_, _, _, _)
FetchN(it, n, max_epochs, training) ==
    IF n = 0 THEN it
    ELSE LET nx == CyclicNext(it, max_epochs, training)
         IN  IF nx.st # "suspended" THEN nx
             ELSE FetchN(nx, n - 1, max_epochs, training)

\* ------------------------------------------------------------ step results
\* (loss_dict, skipped, should_checkpoint, should_exit, grad_norm,
\*  num_zeros_in_grad, extra); a loss dictionary is the set of its keys here.
LossDict(r) == r[1]
Skipped(r) == r[2]
ShouldCheckpoint(r) == r[3]
ShouldExit(r) == r[4]
GradNorm(r) == r[5]
Payload(r) == <<r[6], r[7]>>

\* Line 96 with should_exit left false.
SkipResultNoExit == <<{}, TRUE, TRUE, FALSE, 0, None, None>>

\* Line 96 reporting a step that was not skipped.
SkipResultNotSkipped == <<{}, FALSE, TRUE, TRUE, 0, None, None>>

\* Line 96: what train_step returns on StopIteration.
SkipResult == <<{}, TRUE, TRUE, TRUE, 0, None, None>>

\* What the engine's train_step returns for a step it completed.
EngineStepResult == <<{"lm loss"}, FALSE, FALSE, FALSE, 1, None, None>>

NoResult == <<>>

\* Microbatches of one step: global batch / (micro batch * data parallel).
get_num_microbatches ==
    args.global_batch_size \div (args.micro_batch_size * args.data_parallel_size)

\* Line 129.
eval_num_microbatches ==
    args.global_batch_size \div (args.micro_batch_size * args.data_parallel_size)

\* -------------------------------------------------------- _training_context
\* Line 84 forgotten on the exception path (no try/finally).
TrainingContextExitLeaky(raised) == raised

\* Lines 81-84: the value of args.is_training when the with block is left,
\* whether by return or by an exception.
TrainingContextExit(raised) == FALSE

\* Line 80.
TrainingContextEnter == TRUE

\* ----------------------------------------------------------------- train_step
\* The training loop asks for another step while its counter is below
\* train_iters and no step has asked it to exit.
TrainLoopRequests(w) ==
    /\ pc[w] = "idle"
    /\ run[w] = "running"
    /\ iteration[w] < args.train_iters[1]

\* Line 95 as `except Exception`.
CatchesAll(e) == TRUE

\* Line 95: the except clause of train_step.
Catches(e) == e = "StopIteration"

\* Lines 89-92: train_step is called; the context is entered and the engine's
\* step starts.
TrainStepEnter(w) ==
    /\ requested' = [requested EXCEPT ![w] = @ + 1]
    /\ exc' = [exc EXCEPT ![w] = "none"]
    /\ is_training' = [is_training EXCEPT ![w] = TrainingContextEnter]
    /\ mb' = [mb EXCEPT ![w] = 0]
    /\ pc' = [pc EXCEPT ![w] = "train_step"]
    /\ UNCHANGED <<args, iterVars, iteration, executed, run, step_result, evalVars,
                   accVars, startVars>>

\* The training loop calls train_step for its next step.
TrainStepCall(w) == TrainLoopRequests(w) /\ TrainStepEnter(w)

\* A caller that was told to exit calls train_step all the same.
TrainStepAgain(w) ==
    /\ pc[w] = "idle"
    /\ run[w] = "exited"
    /\ requested[w] < iteration[w] + 1 + MaxRetries
    /\ TrainStepEnter(w)

\* Lines 95-96 and 84: exception e leaves the engine's step inside train_step.
\* A caught one becomes the skip result, any other goes on to the caller; the
\* training context is left either way.
TrainStepExcept(w, e) ==
    /\ exc' = [exc EXCEPT ![w] = e]
    /\ IF Catches(e)
       THEN /\ step_result' = [step_result EXCEPT ![w] = SkipResult]
            /\ pc' = [pc EXCEPT ![w] = "step_returned"]
       ELSE /\ pc' = [pc EXCEPT ![w] = "step_raised"]
            /\ UNCHANGED step_result
    /\ is_training' = [is_training EXCEPT ![w] = TrainingContextExit(~Catches(e))]

\* Lines 230-247 under lines 93-96: the engine runs forward_step for the next
\* microbatch. get_batch takes the batch from the iterator; a refused batch
\* leaves forward_step as StopIteration, which train_step turns into the skip
\* result on its way out of the training context.
forward_step(w) ==
    /\ pc[w] = "train_step"
    /\ mb[w] < get_num_microbatches
    /\ LET nx == CyclicNext(train_data_iterator[w], args.max_epochs, is_training[w])
       IN  /\ train_data_iterator' = [train_data_iterator EXCEPT ![w] = nx]
           /\ CASE nx.st = "suspended" ->
                     /\ mb' = [mb EXCEPT ![w] = @ + 1]
                     /\ UNCHANGED <<pc, is_training, step_result, exc>>
                [] nx.st = "ended" ->
                     /\ TrainStepExcept(w, "StopIteration")
                     /\ UNCHANGED mb
                [] OTHER ->
                     /\ pc' = [pc EXCEPT ![w] = "hung"]
                     /\ UNCHANGED <<mb, is_training, step_result, exc>>
    /\ UNCHANGED <<args, valid_data_iterator, iteration, requested, executed, run,
                   evalVars, accVars, startVars>>

\* Lines 93-94 and 84: the engine's step returns, its result is passed on.
TrainStepReturn(w) ==
    /\ pc[w] = "train_step"
    /\ mb[w] = get_num_microbatches
    /\ step_result' = [step_result EXCEPT ![w] = EngineStepResult]
    /\ executed' = [executed EXCEPT ![w] = @ + 1]
    /\ is_training' = [is_training EXCEPT ![w] = TrainingContextExit(FALSE)]
    /\ pc' = [pc EXCEPT ![w] = "step_returned"]
    /\ UNCHANGED <<args, mb, iterVars, iteration, requested, run, exc, evalVars, accVars, startVars>>

\* Lines 93-95 and 84: the engine's step raises something that is not
\* StopIteration; no except clause matches, the context is left, the
\* exception goes to the caller.
TrainStepRaise(w) ==
    /\ pc[w] = "train_step"
    /\ TrainStepExcept(w, "EngineFailure")
    /\ UNCHANGED <<args, mb, iterVars, iteration, requested, executed, run, evalVars, accVars, startVars>>

\* The training loop takes the step's result: should_exit ends the run,
\* anything else counts one more iteration.
TrainLoopAfterStep(w) ==
    /\ pc[w] = "step_returned"
    /\ IF ShouldExit(step_result[w])
       THEN /\ run' = [run EXCEPT ![w] = "exited"]
            /\ UNCHANGED iteration
       ELSE /\ iteration' = [iteration EXCEPT ![w] = @ + 1]
            /\ UNCHANGED run
    /\ pc' = [pc EXCEPT ![w] = "idle"]
    /\ UNCHANGED <<args, is_training, mb, iterVars, requested, executed, step_result,
                   exc, evalVars, accVars, startVars>>

\* ------------------------------------------------------------------ evaluate
Max(S) == CHOOSE x \in S : \A y \in S : y <= x
Min(S) == CHOOSE x \in S : \A y \in S : x <= y

\* Line 180 with ReduceOp.MIN.
all_reduce_min(flags) == Min({flags[w] : w \in DOMAIN flags})

\* Line 180: all_reduce(done_cuda, op=MAX) over the process group.
all_reduce(flags) == Max({flags[w] : w \in DOMAIN flags})

\* (metrics, auxiliary, aborted)
Metrics(r) == r[1]
Auxiliary(r) == r[2]
Aborted(r) == r[3]

\* is_last_rank(): the process with the highest rank of the world.
is_last_rank(w) == w = args.world_size

\* mpu.is_pipeline_last_stage(): ranks are laid out stage after stage.
is_pipeline_last_stage(w) ==
    (w - 1) \div (args.world_size \div args.pipeline_model_parallel_size)
        = args.pipeline_model_parallel_size - 1

\* A value of a loss dictionary: a scalar v or a pair (v, w).
Scalar(v) == <<"scalar", v>>
Pair(v, w) == <<"tuple", v, w>>
IsTuple(val) == val[1] = "tuple"

\* The loss dictionaries the engine's forward step returns for a microbatch.
ScalarReport == [k \in {"lm loss"} |-> Scalar(2)]
PairReport == [k \in {"lm loss"} |-> Pair(3, 2)]
TwoKeyReport == [k \in {"lm loss", "acc"} |->
                    IF k = "acc" THEN Pair(1, 3) ELSE Scalar(1)]

EmptyDict == [k \in {} |-> <<0, 0>>]

\* Lines 168-173 taking every value for a scalar.
AddValueAsScalar(acc, val) == <<acc[1] + val[2], acc[2] + 1>>

\* Lines 167-173: one value added to its accumulator.
AddValue(acc, val) ==
    IF IsTuple(val) THEN <<acc[1] + val[2], acc[2] + val[3]>>
    ELSE <<acc[1] + val[2], acc[2] + 1>>

\* Lines 164-173: one loss dictionary added to total_loss_dict.
AddLossDict(total, loss_dict) ==
    [key \in DOMAIN total \cup DOMAIN loss_dict |->
        LET acc == IF key \in DOMAIN total THEN total[key] ELSE <<0, 0>>
        IN  IF key \in DOMAIN loss_dict THEN AddValue(acc, loss_dict[key]) ELSE acc]

\* Lines 163-173: the loss dictionaries of one forward call, in order.
RECURSIVE AddLossDicts(_, _)
AddLossDicts(total, loss_dicts) ==
    IF loss_dicts = <<>> THEN total
    ELSE AddLossDicts(AddLossDict(total, Head(loss_dicts)), Tail(loss_dicts))

\* Lines 161-173 moved behind the return of line 185: nothing is added in a
\* pass before the time limit is tested.
AccumulateAfterExit(w, total, loss_dicts) == total

\* Lines 161-173 without the test of line 161.
AccumulateEveryStage(w, total, loss_dicts) == AddLossDicts(total, loss_dicts)

\* Lines 161-173: only the last pipeline stage accumulates.
Accumulate(w, total, loss_dicts) ==
    IF is_pipeline_last_stage(w) THEN AddLossDicts(total, loss_dicts) ELSE total

\* A quotient of two accumulated numbers, kept exact: the reduced fraction.
RECURSIVE Gcd(_, _)
Gcd(a, b) == IF b = 0 THEN a ELSE Gcd(b, a % b)
Quotient(n, d) == <<n \div Gcd(n, d), d \div Gcd(n, d)>>

\* Lines 206-208: numerator / denominator for every key.
Finalize(total) == [key \in DOMAIN total |-> Quotient(total[key][1], total[key][2])]

\* Line 140 is inside the loop: the name forward_backward_func is bound once
\* the loop has made a pass.
forward_backward_func_bound(w) == eval_iteration[w] > 0

\* Line 135 as `while iteration <= eval_iters`.
LoopContinuesInclusive(w) == eval_iteration[w] <= args.eval_iters

\* Line 135: while iteration < eval_iters.
LoopContinues(w) == eval_iteration[w] < args.eval_iters

\* Occurrences of report r in a sequence of reports.
Count(r, loss_dicts) == Cardinality({n \in DOMAIN loss_dicts : loss_dicts[n] = r})

\* The training loop calls evaluate between two steps.
TrainLoopEvaluates(w) ==
    /\ pc[w] = "idle"
    /\ run[w] = "running"
    /\ evals[w] < MaxEvals

\* Lines 107-132: evaluate is called; the timer is started behind a barrier,
\* the modules go to evaluation mode, the rerun mode is read and then
\* disabled, the accumulator is empty, the loop counter starts at 0.
EvaluateCall(w) ==
    /\ TrainLoopEvaluates(w)
    /\ evals' = [evals EXCEPT ![w] = @ + 1]
    /\ model_mode' = [model_mode EXCEPT ![w] = "eval"]
    /\ rerun_mode' = [rerun_mode EXCEPT ![w] = rerun_state_machine[w]]
    /\ rerun_state_machine' = [rerun_state_machine EXCEPT ![w] = "DISABLED"]
    /\ eval_iteration' = [eval_iteration EXCEPT ![w] = 0]
    /\ local_done' = [local_done EXCEPT ![w] = 0]
    /\ done_cuda' = [done_cuda EXCEPT ![w] = 0]
    /\ eval_result' = [eval_result EXCEPT ![w] = NoResult]
    /\ total_loss_dict' = [total_loss_dict EXCEPT ![w] = EmptyDict]
    /\ iter_start_loss_dict' = [iter_start_loss_dict EXCEPT ![w] = EmptyDict]
    /\ reported' = [reported EXCEPT ![w] = [r \in args.loss_reports |-> 0]]
    /\ forward_calls' = [forward_calls EXCEPT ![w] = 0]
    /\ reductions' = [reductions EXCEPT ![w] = 0]
    /\ aux_passes' = [aux_passes EXCEPT ![w] = 0]
    /\ collectives' = [collectives EXCEPT ![w] = @ + 1]
    /\ pc' = [pc EXCEPT ![w] = "eval_loop"]
    /\ UNCHANGED <<args, datasets, given, is_training, mb, iterVars, loopVars,
                   consumed_valid_samples>>

\* Lines 135-179: one pass of the while loop up to the all_reduce. The engine
\* runs forward_step eval_num_microbatches times on the validation iterator
\* and returns one loss dictionary per microbatch; a refused batch leaves
\* evaluate as StopIteration (nothing here catches it). The dictionaries are
\* accumulated, the sample counter advanced, and then the time limit is tested.
EvaluateIteration(w) ==
    /\ pc[w] = "eval_loop"
    /\ LoopContinues(w)
    /\ eval_iteration' = [eval_iteration EXCEPT ![w] = @ + 1]
    /\ forward_calls' = [forward_calls EXCEPT ![w] = @ + 1]
    /\ LET nx == FetchN(valid_data_iterator[w], eval_num_microbatches,
                        args.max_epochs, is_training[w])
       IN  /\ valid_data_iterator' = [valid_data_iterator EXCEPT ![w] = nx]
           /\ CASE nx.st = "ended" ->
                     /\ pc' = [pc EXCEPT ![w] = "eval_exhausted"]
                     /\ UNCHANGED <<local_done, done_cuda, total_loss_dict,
                                    iter_start_loss_dict, reported,
                                    consumed_valid_samples, reductions, collectives>>
                [] nx.st = "hung" ->
                     /\ pc' = [pc EXCEPT ![w] = "hung"]
                     /\ UNCHANGED <<local_done, done_cuda, total_loss_dict,
                                    iter_start_loss_dict, reported,
                                    consumed_valid_samples, reductions, collectives>>
                [] OTHER ->
                     /\ \E loss_dicts \in [1..eval_num_microbatches -> args.loss_reports] :
                           /\ total_loss_dict' = [total_loss_dict EXCEPT ![w] =
                                                    Accumulate(w, @, loss_dicts)]
                           /\ reported' = [reported EXCEPT ![w] =
                                             [r \in DOMAIN @ |-> @[r] + Count(r, loss_dicts)]]
                     /\ iter_start_loss_dict' =
                           [iter_start_loss_dict EXCEPT ![w] = total_loss_dict[w]]
                     /\ consumed_valid_samples' =
                           [consumed_valid_samples EXCEPT ![w] = @ + args.global_batch_size]
                     /\ IF Truthy(args.exit_duration_in_mins)
                        THEN /\ \E exceeded \in {0, 1} :
                                  /\ local_done' = [local_done EXCEPT ![w] = exceeded]
                                  /\ done_cuda' = [done_cuda EXCEPT ![w] = exceeded]
                             /\ reductions' = [reductions EXCEPT ![w] = @ + 1]
                             /\ collectives' = [collectives EXCEPT ![w] = @ + 1]
                             /\ pc' = [pc EXCEPT ![w] = "all_reduce"]
                        ELSE UNCHANGED <<pc, local_done, done_cuda, reductions,
                                         collectives>>
    /\ UNCHANGED <<args, datasets, given, is_training, mb, train_data_iterator, loopVars,
                   evals, model_mode, rerun_state_machine, rerun_mode, eval_result,
                   aux_passes>>

\* Lines 145-153: the engine's forward pass raises; evaluate has no handler
\* and no finally, the exception leaves it from where it is.
EvaluateRaise(w) ==
    /\ pc[w] = "eval_loop"
    /\ LoopContinues(w)
    /\ eval_iteration' = [eval_iteration EXCEPT ![w] = @ + 1]
    /\ forward_calls' = [forward_calls EXCEPT ![w] = @ + 1]
    /\ pc' = [pc EXCEPT ![w] = "eval_raised"]
    /\ UNCHANGED <<args, startVars, is_training, mb, iterVars, loopVars, evals,
                   model_mode, rerun_state_machine, rerun_mode, local_done, done_cuda,
                   eval_result, total_loss_dict, iter_start_loss_dict, reported,
                   consumed_valid_samples, reductions, aux_passes>>

\* Line 180: the collective completes once every process of the group has
\* entered it; each gets the reduced flag. Processes of the group that are
\* not among Workers contribute a flag of their own.
AllReduce ==
    /\ \A w \in Workers : pc[w] = "all_reduce"
    /\ \E others \in (IF args.world_size > Cardinality(Workers) THEN {0, 1} ELSE {0}) :
          done_cuda' = [w \in Workers |->
                          all_reduce([x \in {0, 1} |->
                                        IF x = 0 THEN all_reduce(done_cuda) ELSE others])]
    /\ pc' = [w \in Workers |-> "reduced"]
    /\ UNCHANGED <<args, startVars, is_training, mb, iterVars, loopVars, evals,
                   eval_iteration, model_mode, rerun_state_machine, rerun_mode,
                   local_done, eval_result, accVars>>

\* Lines 181-185 without line 183.
EvaluateAfterReduceNoRestore(w) ==
    /\ pc[w] = "reduced"
    /\ IF done_cuda[w] # 0
       THEN /\ eval_result' = [eval_result EXCEPT ![w] = <<None, None, TRUE>>]
            /\ pc' = [pc EXCEPT ![w] = "eval_returned"]
       ELSE /\ pc' = [pc EXCEPT ![w] = "eval_loop"]
            /\ UNCHANGED eval_result
    /\ UNCHANGED <<args, startVars, is_training, mb, iterVars, loopVars, evals,
                   eval_iteration, model_mode, rerun_state_machine, rerun_mode,
                   local_done, done_cuda, accVars>>

\* Lines 181-185 acting on the flag this process computed itself.
EvaluateAfterReduceLocal(w) ==
    /\ pc[w] = "reduced"
    /\ IF local_done[w] # 0
       THEN /\ rerun_state_machine' = [rerun_state_machine EXCEPT ![w] = rerun_mode[w]]
            /\ eval_result' = [eval_result EXCEPT ![w] = <<None, None, TRUE>>]
            /\ pc' = [pc EXCEPT ![w] = "eval_returned"]
       ELSE /\ pc' = [pc EXCEPT ![w] = "eval_loop"]
            /\ UNCHANGED <<rerun_state_machine, eval_result>>
    /\ UNCHANGED <<args, startVars, is_training, mb, iterVars, loopVars, evals,
                   eval_iteration, model_mode, rerun_mode, local_done, done_cuda,
                   accVars>>

\* Lines 181-185: done = done_cuda.item(); if done, restore the rerun mode and
\* return (None, None, True); otherwise go round the loop.
EvaluateAfterReduce(w) ==
    /\ pc[w] = "reduced"
    /\ IF done_cuda[w] # 0
       THEN /\ rerun_state_machine' = [rerun_state_machine EXCEPT ![w] = rerun_mode[w]]
            /\ eval_result' = [eval_result EXCEPT ![w] = <<None, None, TRUE>>]
            /\ pc' = [pc EXCEPT ![w] = "eval_returned"]
       ELSE /\ pc' = [pc EXCEPT ![w] = "eval_loop"]
            /\ UNCHANGED <<rerun_state_machine, eval_result>>
    /\ UNCHANGED <<args, startVars, is_training, mb, iterVars, loopVars, evals,
                   eval_iteration, model_mode, rerun_mode, local_done, done_cuda,
                   accVars>>

\* Lines 187-200: which collector produces collected_non_loss_data.
Collector(w) ==
    IF args.non_loss_data_func THEN "non_loss_data_func"
    ELSE IF args.process_non_loss_data_func /\ is_last_rank(w) THEN "forward_pass"
    ELSE "none"

\* Lines 202-217: the modules go back to training mode, every accumulator is
\* divided out, the rerun mode is restored, the results are returned.
EvaluateReturn(w, collected_non_loss_data) ==
    /\ model_mode' = [model_mode EXCEPT ![w] = "train"]
    /\ rerun_state_machine' = [rerun_state_machine EXCEPT ![w] = rerun_mode[w]]
    /\ eval_result' = [eval_result EXCEPT ![w] =
                         <<Some(Finalize(total_loss_dict[w])), collected_non_loss_data, FALSE>>]
    /\ pc' = [pc EXCEPT ![w] = "eval_returned"]

\* Lines 187-217: the loop ran eval_iters times. A direct collector is called
\* on the model; failing that, on the last rank with a diagnostic collector,
\* forward_backward_func is called once more with collect_non_loss_data (the
\* name is unbound if the loop made no pass; the engine may raise); then
\* evaluate returns.
EvaluateFinish(w) ==
    /\ pc[w] = "eval_loop"
    /\ ~LoopContinues(w)
    /\ CASE Collector(w) = "non_loss_data_func" ->
              /\ EvaluateReturn(w, Some("non_loss_data_func(model)"))
              /\ UNCHANGED <<valid_data_iterator, aux_passes>>
         [] Collector(w) = "forward_pass" /\ ~forward_backward_func_bound(w) ->
              /\ pc' = [pc EXCEPT ![w] = "eval_unbound_local"]
              /\ UNCHANGED <<valid_data_iterator, aux_passes, model_mode,
                             rerun_state_machine, eval_result>>
         [] Collector(w) = "forward_pass" /\ forward_backward_func_bound(w) ->
              /\ aux_passes' = [aux_passes EXCEPT ![w] = @ + 1]
              /\ valid_data_iterator' = [valid_data_iterator EXCEPT ![w] =
                     FetchN(@, get_num_microbatches, args.max_epochs, is_training[w])]
              /\ \/ EvaluateReturn(w, Some("collect_non_loss_data"))
                 \/ /\ pc' = [pc EXCEPT ![w] = "eval_raised"]
                    /\ UNCHANGED <<model_mode, rerun_state_machine, eval_result>>
         [] OTHER ->
              /\ EvaluateReturn(w, None)
              /\ UNCHANGED <<valid_data_iterator, aux_passes>>
    /\ UNCHANGED <<args, startVars, is_training, mb, train_data_iterator, loopVars,
                   evals, eval_iteration, rerun_mode, local_done, done_cuda,
                   total_loss_dict, iter_start_loss_dict, reported,
                   consumed_valid_samples, forward_calls, reductions>>

\* The caller of evaluate goes on with its loop.
AfterEvaluate(w) ==
    /\ pc[w] = "eval_returned"
    /\ pc' = [pc EXCEPT ![w] = "idle"]
    /\ UNCHANGED <<args, startVars, is_training, mb, iterVars, loopVars, evalVars,
                   accVars>>

\* ------------------------------------------------------------ specifications
ExitBudget == 30     \* a positive args.exit_duration_in_mins

\* The batches one rank's loader yields in a pass over a dataset of n samples:
\* whole micro batches for every data-parallel rank, the remainder dropped.
LoaderLen(n, micro_batch_size, data_parallel_size) ==
    n \div (micro_batch_size * data_parallel_size)

Sized(n) == <<"sized", n>>
Streaming == <<"streaming">>
NoDataset == <<"none">>
HasLen(dataset) == dataset[1] = "sized"

Configs(procs) ==
    [ max_epochs : {None} \cup {Some(n) : n \in 0..MaxEpochs},
      train_iters : {Some(n) : n \in 1..MaxTrainIters},
      eval_iters : 0..MaxEvalIters,
      exit_duration_in_mins : {None, Some(0), Some(ExitBudget)},
      micro_batch_size : {1},
      data_parallel_size : {Cardinality(procs)},
      global_batch_size : {Cardinality(procs) * k : k \in 1..MaxMicro},
      initial_rerun_mode : RerunModes,
      world_size : {Cardinality(procs)},
      pipeline_model_parallel_size : {1},
      non_loss_data_func : {FALSE},
      process_non_loss_data_func : {FALSE},
      loss_reports : {{ScalarReport}},
      consumed_valid_samples : {0} ]

\* What every process starts from: nothing called yet.
InitLocals(procs) ==
    /\ is_training = [w \in procs |-> FALSE]
    /\ mb = [w \in procs |-> 0]
    /\ step_result = [w \in procs |-> NoResult]
    /\ exc = [w \in procs |-> "none"]
    /\ iteration = [w \in procs |-> 0]
    /\ requested = [w \in procs |-> 0]
    /\ executed = [w \in procs |-> 0]
    /\ run = [w \in procs |-> "running"]
    /\ evals = [w \in procs |-> 0]
    /\ eval_iteration = [w \in procs |-> 0]
    /\ model_mode = [w \in procs |-> "train"]
    /\ rerun_state_machine = [w \in procs |-> args.initial_rerun_mode]
    /\ rerun_mode = [w \in procs |-> args.initial_rerun_mode]
    /\ local_done = [w \in procs |-> 0]
    /\ done_cuda = [w \in procs |-> 0]
    /\ eval_result = [w \in procs |-> NoResult]
    /\ total_loss_dict = [w \in procs |-> EmptyDict]
    /\ iter_start_loss_dict = [w \in procs |-> EmptyDict]
    /\ reported = [w \in procs |-> [r \in args.loss_reports |-> 0]]
    /\ consumed_valid_samples = [w \in procs |-> args.consumed_valid_samples]
    /\ forward_calls = [w \in procs |-> 0]
    /\ reductions = [w \in procs |-> 0]
    /\ aux_passes = [w \in procs |-> 0]

\* The state of the processes procs once initialize_megatron has returned,
\* for a configuration of configs and loaders of n batches a pass.
InitWith(procs, configs) ==
    /\ args \in configs
    /\ given = [train_iters |-> args.train_iters, eval_iters |-> args.eval_iters]
    /\ \E n \in 0..MaxLen :
          /\ train_data_iterator = [w \in procs |-> NewCyclicIter(n)]
          /\ valid_data_iterator = [w \in procs |-> NewCyclicIter(n)]
          /\ datasets = [train |-> Sized(n * args.micro_batch_size * args.data_parallel_size),
                         val |-> Sized(n * args.micro_batch_size * args.data_parallel_size)]
    /\ collectives = [w \in procs |-> 1]
    /\ pc = [w \in procs |-> "idle"]
    /\ InitLocals(procs)

Init == InitWith({1}, Configs({1}))

Next ==
    \/ \E w \in Workers : TrainStepCall(w)
    \/ \E w \in Workers : forward_step(w)
    \/ \E w \in Workers : TrainStepReturn(w)
    \/ \E w \in Workers : TrainStepRaise(w)
    \/ \E w \in Workers : TrainLoopAfterStep(w)
    \/ \E w \in Workers : EvaluateCall(w)
    \/ \E w \in Workers : EvaluateIteration(w)
    \/ \E w \in Workers : EvaluateRaise(w)
    \/ AllReduce
    \/ \E w \in Workers : EvaluateAfterReduce(w)
    \/ \E w \in Workers : EvaluateFinish(w)
    \/ \E w \in Workers : AfterEvaluate(w)

Spec == Init /\ [][Next]_vars

\* The processes of one group, each making one evaluate call; no training step
\* runs, so the fields only training reads are fixed.
Fleet == 1..NumWorkers

InitFleet ==
    InitWith(Fleet, {c \in Configs(Fleet) :
                        /\ c.train_iters = Some(1)
                        /\ c.initial_rerun_mode = "VALIDATE_RESULTS"})

NextFleet ==
    \/ \E w \in Workers : EvaluateCall(w)
    \/ \E w \in Workers : EvaluateIteration(w)
    \/ \E w \in Workers : EvaluateRaise(w)
    \/ AllReduce
    \/ \E w \in Workers : EvaluateAfterReduce(w)
    \/ \E w \in Workers : EvaluateFinish(w)

SpecFleet == InitFleet /\ [][NextFleet]_vars

\* The global batch is 1..MaxMicro microbatches on every data-parallel rank.
WholeMicrobatches(c) ==
    /\ c.global_batch_size % (c.micro_batch_size * c.data_parallel_size) = 0
    /\ c.global_batch_size \div (c.micro_batch_size * c.data_parallel_size) <= MaxMicro

\* One process r of a group of NumWorkers in one evaluate call. The group is
\* one pipeline of NumWorkers stages or NumWorkers replicas of one stage; the
\* engine returns scalars and pairs under one key, or two keys at once.
EvalConfigs ==
    [ max_epochs : {None},
      train_iters : {Some(1)},
      eval_iters : 0..MaxEvalIters,
      exit_duration_in_mins : {None, Some(ExitBudget)},
      micro_batch_size : {1},
      data_parallel_size : {1, NumWorkers},
      global_batch_size : 1..(NumWorkers * MaxMicro),
      initial_rerun_mode : {"VALIDATE_RESULTS"},
      world_size : {NumWorkers},
      pipeline_model_parallel_size : {1, NumWorkers},
      non_loss_data_func : BOOLEAN,
      process_non_loss_data_func : BOOLEAN,
      loss_reports : {{ScalarReport, PairReport}, {TwoKeyReport}},
      consumed_valid_samples : {0, MaxSamples} ]

InitEval ==
    \E r \in 1..NumWorkers :
        InitWith({r}, {c \in EvalConfigs :
                          /\ c.data_parallel_size * c.pipeline_model_parallel_size
                                = c.world_size
                          /\ WholeMicrobatches(c)})

NextEval ==
    \/ \E w \in Workers : EvaluateCall(w)
    \/ \E w \in Workers : EvaluateIteration(w)
    \/ \E w \in Workers : EvaluateRaise(w)
    \/ AllReduce
    \/ \E w \in Workers : EvaluateAfterReduce(w)
    \/ \E w \in Workers : EvaluateFinish(w)

SpecEval == InitEval /\ [][NextEval]_vars

\* --------------------------------------------------------- initialize_megatron
\* Lines 40-41.
DerivedTrainItersNoExtra(n, step_batch_size, max_epochs, global_batch_size) ==
    ((n \div step_batch_size) * step_batch_size * max_epochs) \div global_batch_size

\* Lines 40-41: train_iters from the length of the training dataset.
DerivedTrainIters(n, step_batch_size, max_epochs, global_batch_size) ==
    ((n \div step_batch_size) * step_batch_size * max_epochs) \div global_batch_size + 1

\* Lines 47-48: eval_iters from the length of the validation dataset.
DerivedEvalIters(n, step_batch_size, global_batch_size) ==
    Max({((n \div step_batch_size) * step_batch_size) \div global_batch_size, 1})

\* Line 35: origin_initialize_megatron runs first, whatever lines 39-52 find:
\* torch.distributed and the model-parallel groups are set up (line 37 reads
\* them), which every process of the job enters together.
OriginInitialize(failed) == 1

\* Lines 34-53: the patched initialize_megatron. Megatron's own runs first;
\* then train_iters is derived if it was not given (a streaming dataset is a
\* ValueError, max_epochs = None a TypeError at line 41), and eval_iters if a
\* validation dataset is there and eval_iters is negative.
initialize_megatron(w) ==
    /\ pc[w] = "start"
    /\ LET step_batch_size == args.micro_batch_size * args.data_parallel_size
           train_error == args.train_iters = None /\ ~HasLen(datasets.train)
           type_error == /\ args.train_iters = None
                         /\ HasLen(datasets.train)
                         /\ args.max_epochs = None
           train_iters == IF args.train_iters # None THEN args.train_iters
                          ELSE Some(DerivedTrainIters(datasets.train[2], step_batch_size,
                                                      args.max_epochs[1],
                                                      args.global_batch_size))
           derive_eval == datasets.val # NoDataset /\ args.eval_iters < 0
           val_error == derive_eval /\ ~HasLen(datasets.val)
           eval_iters == IF ~derive_eval THEN args.eval_iters
                         ELSE DerivedEvalIters(datasets.val[2], step_batch_size,
                                               args.global_batch_size)
       IN  /\ collectives' = [collectives EXCEPT ![w] =
                                @ + OriginInitialize(train_error \/ val_error)]
           /\ CASE train_error ->
                     /\ pc' = [pc EXCEPT ![w] = "config_error"]
                     /\ UNCHANGED args
                [] type_error ->
                     /\ pc' = [pc EXCEPT ![w] = "type_error"]
                     /\ UNCHANGED args
                [] OTHER ->
                     IF val_error
                     THEN /\ pc' = [pc EXCEPT ![w] = "config_error"]
                          /\ args' = [args EXCEPT !.train_iters = train_iters]
                     ELSE /\ pc' = [pc EXCEPT ![w] = "idle"]
                          /\ args' = [args EXCEPT !.train_iters = train_iters,
                                                  !.eval_iters = eval_iters]
    /\ UNCHANGED <<datasets, given, is_training, mb, iterVars, loopVars, evalVars,
                   accVars>>

\* One process from train(): any dataset, sized or streaming, train_iters and
\* eval_iters given or not. The loaders (built once the counts are known) are
\* the generators they will be: a pass over a sized dataset has LoaderLen
\* batches, a pass over a streaming one MaxLen.
TrainConfigs ==
    [ max_epochs : {None} \cup {Some(n) : n \in 0..MaxEpochs},
      train_iters : {None, Some(MaxTrainIters)},
      eval_iters : {-1, 1},
      exit_duration_in_mins : {None},
      micro_batch_size : {1},
      data_parallel_size : {1, NumWorkers},
      global_batch_size : 1..(NumWorkers * MaxMicro),
      initial_rerun_mode : {"VALIDATE_RESULTS"},
      world_size : {NumWorkers},
      pipeline_model_parallel_size : {1},
      non_loss_data_func : {FALSE},
      process_non_loss_data_func : {FALSE},
      loss_reports : {{ScalarReport}},
      consumed_valid_samples : {0} ]

Batches(dataset) ==
    IF HasLen(dataset)
    THEN LoaderLen(dataset[2], args.micro_batch_size, args.data_parallel_size)
    ELSE IF dataset = Streaming THEN MaxLen ELSE 0

InitTrain ==
    /\ args \in {c \in TrainConfigs : WholeMicrobatches(c)}
    /\ given = [train_iters |-> args.train_iters, eval_iters |-> args.eval_iters]
    /\ datasets \in [train : {Sized(n) : n \in 0..MaxSamples} \cup {Streaming},
                     val : {NoDataset, Streaming, Sized(MaxSamples)}]
    /\ train_data_iterator = [w \in {1} |-> NewCyclicIter(Batches(datasets.train))]
    /\ valid_data_iterator = [w \in {1} |-> NewCyclicIter(Batches(datasets.val))]
    /\ collectives = [w \in {1} |-> 0]
    /\ pc = [w \in {1} |-> "start"]
    /\ InitLocals({1})

NextTrain ==
    \/ \E w \in Workers : initialize_megatron(w)
    \/ \E w \in Workers : TrainStepCall(w)
    \/ \E w \in Workers : forward_step(w)
    \/ \E w \in Workers : TrainStepReturn(w)
    \/ \E w \in Workers : TrainStepRaise(w)
    \/ \E w \in Workers : TrainLoopAfterStep(w)

SpecTrain == InitTrain /\ [][NextTrain]_vars

\* Spec without evaluate, and with a caller that does not stop at should_exit.
NextRetry ==
    \/ \E w \in Workers : TrainStepCall(w)
    \/ \E w \in Workers : TrainStepAgain(w)
    \/ \E w \in Workers : forward_step(w)
    \/ \E w \in Workers : TrainStepReturn(w)
    \/ \E w \in Workers : TrainStepRaise(w)
    \/ \E w \in Workers : TrainLoopAfterStep(w)

SpecRetry == Init /\ [][NextRetry]_vars

\* ===================================================================== claims
Canonical(r) ==
    /\ LossDict(r) = {}
    /\ Skipped(r)
    /\ ShouldCheckpoint(r)
    /\ ShouldExit(r)
    /\ GradNorm(r) = 0
    /\ Payload(r) = <<None, None>>

InEvaluateLoop(w) == pc[w] \in {"eval_loop", "all_reduce", "reduced"}

\* C1: with a positive exit-duration budget, once some worker's local
\* time-limit check is true at iteration j, no worker is beyond iteration j,
\* no worker goes round the loop again after the reduction of iteration j,
\* and every worker that has left evaluate left it at iteration j with
\* (None, None, aborted = true): none returns metrics.
C1_ConsensusExit ==
    \A w \in Workers : \A v \in Workers :
        (Truthy(args.exit_duration_in_mins) /\ local_done[w] = 1) =>
            /\ eval_iteration[v] <= eval_iteration[w]
            /\ pc[v] = "eval_loop" => eval_iteration[v] < eval_iteration[w]
            /\ (pc[v] = "reduced" /\ eval_iteration[v] = eval_iteration[w]) =>
                  done_cuda[v] = 1
            /\ pc[v] = "eval_returned" =>
                  /\ eval_result[v] = <<None, None, TRUE>>
                  /\ eval_iteration[v] = eval_iteration[w]

\* C1 witness: one worker alone saw the limit exceeded, at iteration 2, and
\* every worker has returned aborted at iteration 2.
C1_Witness ==
    /\ Cardinality(Workers) > 1
    /\ Cardinality({w \in Workers : local_done[w] = 1}) = 1
    /\ \A v \in Workers :
          /\ pc[v] = "eval_returned"
          /\ Aborted(eval_result[v])
          /\ eval_iteration[v] = 2

\* C2: with max_epochs = N > 0, the training iterator (every batch of which
\* is requested inside the training context) yields the source's batches in
\* order, pass after pass, never more than N passes; when it has ended it has
\* yielded exactly N * L batches and its epoch index is N.
C2_ExactlyNPasses ==
    \A w \in Workers :
        LET it == train_data_iterator[w]
            N == args.max_epochs[1]
        IN  (Truthy(args.max_epochs) /\ N > 0) =>
               /\ it.yielded <= N * it.len
               /\ it.yielded > 0 => it.last = ((it.yielded - 1) % it.len) + 1
               /\ it.st = "ended" => (it.yielded = N * it.len /\ it.i = N)

\* C2 witness: two passes over two batches, then the end.
C2_Witness ==
    \E w \in Workers :
        /\ args.max_epochs = Some(2)
        /\ train_data_iterator[w].len = 2
        /\ train_data_iterator[w].st = "ended"
        /\ train_data_iterator[w].yielded = 4

\* C3: with max_epochs unset (None or 0) no cyclic iterator is ever in the
\* ended state, in training or out of it, and every exhaustion restarted the
\* source: the batches yielded are whole passes plus the current position.
C3_UnsetNeverEnds ==
    \A w \in Workers :
        ~Truthy(args.max_epochs) =>
            \A it \in {train_data_iterator[w], valid_data_iterator[w]} :
                /\ it.st # "ended"
                /\ it.st = "suspended" => it.yielded = it.i * it.len + it.pos

\* C3 witness: max_epochs = 0; the training iterator has restarted twice
\* inside the training context, the validation iterator once outside it.
C3_Witness ==
    \E w \in Workers :
        /\ args.max_epochs = Some(0)
        /\ train_data_iterator[w].i >= 2
        /\ train_data_iterator[w].st = "suspended"
        /\ valid_data_iterator[w].i >= 1
        /\ valid_data_iterator[w].st = "suspended"

\* C4: when the iterator refuses a batch inside train_step, the call does not
\* raise: it returns the canonical skip result, and args.is_training is false
\* after the call as it was before it.
C4_ExhaustionSkips ==
    \A w \in Workers :
        /\ exc[w] = "StopIteration" =>
              /\ pc[w] # "step_raised"
              /\ Canonical(step_result[w])
              /\ ~is_training[w]
        /\ pc[w] = "idle" => ~is_training[w]

\* C4 witness: the refusal came after one microbatch of the step was consumed.
C4_Witness ==
    \E w \in Workers :
        /\ pc[w] = "step_returned"
        /\ exc[w] = "StopIteration"
        /\ mb[w] = 1

\* C5: args.is_training is true while the engine's step runs and false once
\* train_step is left, by return, by exhaustion or by an engine failure; an
\* engine failure leaves train_step as a failure, not as a step result.
C5_TrainingContextScoped ==
    \A w \in Workers :
        /\ pc[w] = "train_step" => is_training[w]
        /\ pc[w] \in {"idle", "step_returned", "step_raised"} => ~is_training[w]
        /\ exc[w] = "EngineFailure" =>
              /\ pc[w] = "step_raised"
              /\ (step_result[w] = NoResult \/ ~Skipped(step_result[w]))

\* C5 witness: an engine failure after a microbatch was consumed has left
\* train_step, with the flag cleared.
C5_Witness ==
    \E w \in Workers :
        /\ pc[w] = "step_raised"
        /\ exc[w] = "EngineFailure"
        /\ mb[w] >= 1
        /\ ~is_training[w]

\* C6: every model module is in evaluation mode in every pass of evaluate's
\* loop and is in training mode again when evaluate returns, on the normal
\* path and on the time-limit path.
C6_ModelModeRestored ==
    \A w \in Workers :
        /\ InEvaluateLoop(w) => model_mode[w] = "eval"
        /\ pc[w] = "eval_returned" => model_mode[w] = "train"

\* C7: the rerun mode is DISABLED in every pass of evaluate's loop, and when
\* evaluate returns, normally or by the time-limit exit, it is the mode the
\* rerun state machine had when evaluate was entered.
C7_RerunModeRestored ==
    \A w \in Workers :
        /\ InEvaluateLoop(w) => rerun_state_machine[w] = "DISABLED"
        /\ pc[w] \in {"eval_returned", "idle"} =>
              rerun_state_machine[w] = args.initial_rerun_mode

\* C7 witness: evaluate was entered in a mode other than DISABLED and has
\* returned by the time-limit exit.
C7_Witness ==
    \E w \in Workers :
        /\ pc[w] = "eval_returned"
        /\ Aborted(eval_result[w])
        /\ args.initial_rerun_mode = "REPORT_DETERMINISM_STATS"
        /\ rerun_state_machine[w] = "REPORT_DETERMINISM_STATS"

\* C8 as stated: a step taken while args.is_training is false leaves the
\* epoch index of every cyclic iterator as it was.
C8_EpochOnlyInTraining ==
    [][\A w \in Workers :
          ~is_training[w] =>
             /\ valid_data_iterator'[w].i = valid_data_iterator[w].i
             /\ train_data_iterator'[w].i = train_data_iterator[w].i]_vars

\* C8 amended: the epoch index counts the exhaustions of the source, whether
\* they were observed inside the training context or outside it: an iterator
\* that has yielded k > 0 batches of a source of L batches and is waiting at
\* its yield has i = (k - 1) div L; and the validation iterator, requested
\* only outside the training context, is never ended by an exhaustion.
C8_EpochCountsEveryPass ==
    \A w \in Workers :
        /\ \A it \in {train_data_iterator[w], valid_data_iterator[w]} :
              /\ it.st = "suspended" => it.i = (it.yielded - 1) \div it.len
              /\ (it.st = "ended" /\ it.len > 0) => it.i = it.yielded \div it.len
        /\ valid_data_iterator[w].st # "ended"

\* C8 witness: inside evaluate, outside the training context, the validation
\* iterator has gone through one exhaustion and its epoch index is 1.
C8_Witness ==
    \E w \in Workers :
        /\ InEvaluateLoop(w)
        /\ ~is_training[w]
        /\ valid_data_iterator[w].i = 1
        /\ valid_data_iterator[w].yielded > valid_data_iterator[w].len

\* C9: a cyclic iterator over a non-empty source that is requested only
\* outside the training context never ends, whatever max_epochs is and
\* however many passes it has made; evaluate never sees StopIteration.
C9_EvaluationNeverStops ==
    \A w \in Workers :
        valid_data_iterator[w].len > 0 =>
            /\ valid_data_iterator[w].st \in {"created", "suspended"}
            /\ pc[w] # "eval_exhausted"

\* C9 witness: evaluate has completed with the validation iterator past
\* max_epochs passes.
C9_Witness ==
    \E w \in Workers :
        /\ Truthy(args.max_epochs)
        /\ valid_data_iterator[w].i > args.max_epochs[1]
        /\ pc[w] = "eval_returned"
        /\ ~Aborted(eval_result[w])

EpochBoundReached(w) == train_data_iterator[w].st = "ended"

\* C10: no more than train_iters steps are requested; the run is ended before
\* that only by the step in which the iterator refused data; and once the
\* iterator has refused data no further step is requested or executed.
C10_FirstBoundStops ==
    /\ [](\A w \in Workers :
            /\ requested[w] <= args.train_iters[1]
            /\ run[w] = "exited" => (EpochBoundReached(w) /\ Skipped(step_result[w]))
            /\ (EpochBoundReached(w) /\ pc[w] = "idle") => run[w] = "exited")
    /\ [][\A w \in Workers :
            EpochBoundReached(w) =>
               /\ requested'[w] = requested[w]
               /\ executed'[w] = executed[w]]_vars

\* C10 witness: the epoch bound came first: the run was ended by the second
\* of three steps, one step executed.
C10_Witness ==
    \E w \in Workers :
        /\ run[w] = "exited"
        /\ args.train_iters = Some(3)
        /\ requested[w] = 2
        /\ executed[w] = 1

\* C10 witness of the other bound: train_iters steps executed, the iterator
\* still willing.
C10_WitnessIters ==
    \E w \in Workers :
        /\ iteration[w] = args.train_iters[1]
        /\ executed[w] = args.train_iters[1]
        /\ Truthy(args.max_epochs)
        /\ ~EpochBoundReached(w)

\* What one value of a report contributes: a pair (v, w) gives (v, w), a
\* scalar gives (value, 1).
Contribution(val) == IF IsTuple(val) THEN <<val[2], val[3]>> ELSE <<val[2], 1>>

\* The sum, over the reports counted in rep, of component n of what each
\* contributes under key.
RECURSIVE SumOfReports(_, _, _, _)
SumOfReports(rep, rs, key, n) ==
    IF rs = {} THEN 0
    ELSE LET r == CHOOSE x \in rs : TRUE
         IN  (IF key \in DOMAIN r THEN rep[r] * Contribution(r[key])[n] ELSE 0)
                + SumOfReports(rep, rs \ {r}, key, n)

ReportedKeys(rep) == UNION {DOMAIN r : r \in {x \in DOMAIN rep : rep[x] > 0}}

Returned(w) == pc[w] = "eval_returned" /\ ~Aborted(eval_result[w])
AbortedAt(w, j) ==
    pc[w] = "eval_returned" /\ Aborted(eval_result[w]) /\ eval_iteration[w] = j

\* C13: when evaluate returns without the early exit, on a process that
\* accumulates, the metrics are the keys the engine reported, and each is the
\* sum of the numerators over the sum of the denominators of all reports of
\* all iterations, a pair (v, w) contributing (v, w) and a scalar (value, 1).
C13_MetricIsRatioOfSums ==
    \A w \in Workers :
        (Returned(w) /\ is_pipeline_last_stage(w)) =>
            LET metrics == Metrics(eval_result[w])[1]
                rep == reported[w]
            IN  /\ DOMAIN metrics = ReportedKeys(rep)
                /\ \A key \in DOMAIN metrics :
                      metrics[key] = Quotient(SumOfReports(rep, DOMAIN rep, key, 1),
                                              SumOfReports(rep, DOMAIN rep, key, 2))

\* C13 witness: one key reported once as the scalar 2 and once as the pair
\* (3, 2): the metric is (2 + 3) / (1 + 2) = 5/3.
C13_Witness ==
    \E w \in Workers :
        /\ Returned(w)
        /\ is_pipeline_last_stage(w)
        /\ args.loss_reports = {ScalarReport, PairReport}
        /\ reported[w][ScalarReport] = 1
        /\ reported[w][PairReport] = 1
        /\ Metrics(eval_result[w])[1]["lm loss"] = <<5, 3>>

\* C13 witness for two keys in one report: a scalar metric reported k = 2
\* times is the sum of its values over 2, a metric reported only as pairs
\* (1, 3) is 2/6 = 1/3.
C13_WitnessTwoKeys ==
    \E w \in Workers :
        /\ Returned(w)
        /\ is_pipeline_last_stage(w)
        /\ args.loss_reports = {TwoKeyReport}
        /\ reported[w][TwoKeyReport] = 2
        /\ Metrics(eval_result[w])[1]["lm loss"] = <<1, 1>>
        /\ Metrics(eval_result[w])[1]["acc"] = <<1, 3>>

\* C14 as stated: when evaluate returns aborted at iteration j, the
\* accumulator is what iteration j found: the contributions of 1..j-1 only.
C14_ExitBeforeAccumulation ==
    \A w \in Workers :
        (pc[w] = "eval_returned" /\ Aborted(eval_result[w])) =>
            total_loss_dict[w] = iter_start_loss_dict[w]

\* C14 amended: when evaluate returns aborted at iteration j, the accumulator
\* of an accumulating process holds the contributions of iterations 1..j, the
\* reports of iteration j included (they were added before the time limit was
\* tested); none of it is returned: the metrics are None.
C14_ExitAfterAccumulation ==
    \A w \in Workers : \A j \in 1..(MaxEvalIters + 1) :
        (AbortedAt(w, j) /\ is_pipeline_last_stage(w)) =>
            LET rep == reported[w]
            IN  /\ Metrics(eval_result[w]) = None
                /\ DOMAIN total_loss_dict[w] = ReportedKeys(rep)
                /\ \A key \in DOMAIN total_loss_dict[w] :
                      total_loss_dict[w][key] =
                          <<SumOfReports(rep, DOMAIN rep, key, 1),
                            SumOfReports(rep, DOMAIN rep, key, 2)>>
                /\ \A key \in DOMAIN total_loss_dict[w] :
                      /\ key \in DOMAIN iter_start_loss_dict[w] =>
                            total_loss_dict[w][key][2] > iter_start_loss_dict[w][key][2]
                      /\ (key \notin DOMAIN iter_start_loss_dict[w]) => j = 1

\* C14 witness: aborted at iteration 2 on an accumulating process; the
\* accumulator holds the reports of both iterations.
C14_Witness ==
    \E w \in Workers :
        /\ AbortedAt(w, 2)
        /\ is_pipeline_last_stage(w)
        /\ eval_num_microbatches = 1
        /\ args.loss_reports = {TwoKeyReport}
        /\ iter_start_loss_dict[w]["acc"] = <<1, 3>>
        /\ total_loss_dict[w]["acc"] = <<2, 6>>

\* C15: when the engine raises inside an evaluation iteration, the rerun
\* state machine is back in the mode evaluate found it in by the time the
\* exception has left evaluate.
C15_RerunModeRestoredOnFailure ==
    \A w \in Workers :
        pc[w] = "eval_raised" => rerun_state_machine[w] = rerun_mode[w]

\* C18: a call that returns not aborted made exactly eval_iters forward-only
\* engine calls in its loop; a call aborted at iteration j made j of them and
\* entered j time-limit reductions, j <= eval_iters, and the consumed-sample
\* counter is j global batches further; and a reduced flag that says stop ends
\* the call by a return with aborted = true.
C18_WholeIterations ==
    /\ [](\A w \in Workers :
            /\ forward_calls[w] <= args.eval_iters
            /\ Returned(w) =>
                  /\ forward_calls[w] = args.eval_iters
                  /\ eval_result[w][3] = FALSE
            /\ \A j \in 0..(MaxEvalIters + 1) :
                  AbortedAt(w, j) =>
                      /\ 1 <= j /\ j <= args.eval_iters
                      /\ forward_calls[w] = j
                      /\ reductions[w] = j
                      /\ consumed_valid_samples[w] =
                            args.consumed_valid_samples + j * args.global_batch_size)
    /\ [][\A w \in Workers :
            (pc[w] = "reduced" /\ done_cuda[w] # 0 /\ pc'[w] # pc[w]) =>
                /\ pc'[w] = "eval_returned"
                /\ eval_result'[w] = <<None, None, TRUE>>]_vars

\* C18 witness: aborted at iteration 2 of 2, from a counter that did not
\* start at 0.
C18_Witness ==
    \E w \in Workers :
        /\ AbortedAt(w, 2)
        /\ forward_calls[w] = 2
        /\ reductions[w] = 2
        /\ args.consumed_valid_samples > 0
        /\ consumed_valid_samples[w] > args.consumed_valid_samples

\* C18 witness of the other exit: eval_iters = 2 forward calls, not aborted;
\* and of eval_iters = 0: no forward call.
C18_WitnessComplete ==
    \E w \in Workers :
        /\ Returned(w)
        /\ forward_calls[w] = args.eval_iters
        /\ args.eval_iters = 2

\* C19: once the loop is over without the early exit, whatever eval_iters
\* is, evaluate returns, and: with a direct collector the auxiliary result is
\* its output and no extra pass is made; with only the diagnostic collector
\* exactly one extra pass is made on the last rank and none elsewhere; with
\* neither the auxiliary result is None and no extra pass is made. An aborted
\* call makes no extra pass.
C19_CollectorPrecedence ==
    \A w \in Workers :
        /\ pc[w] # "eval_unbound_local"
        /\ (pc[w] = "eval_returned" /\ Aborted(eval_result[w])) => aux_passes[w] = 0
        /\ Returned(w) =>
              /\ args.non_loss_data_func =>
                    /\ Auxiliary(eval_result[w]) = Some("non_loss_data_func(model)")
                    /\ aux_passes[w] = 0
              /\ (~args.non_loss_data_func /\ args.process_non_loss_data_func) =>
                    aux_passes[w] = (IF is_last_rank(w) THEN 1 ELSE 0)
              /\ (~args.non_loss_data_func /\ ~args.process_non_loss_data_func) =>
                    /\ Auxiliary(eval_result[w]) = None
                    /\ aux_passes[w] = 0

\* C20: a process that is not on the last pipeline stage never has anything
\* in its accumulator, whatever the engine returned to it, and a call that
\* returns not aborted returns the empty mapping as its metrics.
C20_OnlyLastStageAccumulates ==
    \A w \in Workers :
        ~is_pipeline_last_stage(w) =>
            /\ total_loss_dict[w] = EmptyDict
            /\ Returned(w) => Metrics(eval_result[w]) = Some(EmptyDict)

\* C20 witness: a process of another stage returns after two iterations in
\* which the engine handed it loss dictionaries.
C20_Witness ==
    \E w \in Workers :
        /\ ~is_pipeline_last_stage(w)
        /\ Returned(w)
        /\ forward_calls[w] = 2
        /\ \E r \in DOMAIN reported[w] : reported[w][r] >= 2

\* initialize_megatron has derived train_iters for process w.
Derived(w) ==
    /\ given.train_iters = None
    /\ pc[w] \notin {"start", "config_error", "type_error"}

\* The run of process w with a derived train_iters T: T as the formula gives
\* it; unless the engine fails, never more than T steps requested nor T - 1
\* executed, the step that returns skipped is step T and no other, and the
\* run ends by it; the epoch index of the training iterator is the number of
\* full passes consumed. For max_epochs = 2, 10 samples, micro batch 1, data
\* parallel 1, global batch 2: T = 11, the epoch index becomes 1 in step 6
\* (after step 5) and 2 in step 11 (after step 10).
DerivedRun(w) ==
    LET L == datasets.train[2]
        sz == args.micro_batch_size * args.data_parallel_size
        N == args.max_epochs[1]
        T == args.train_iters[1]
        it == train_data_iterator[w]
    IN  /\ T = ((L \div sz) * sz * N) \div args.global_batch_size + 1
        /\ exc[w] # "EngineFailure" =>
              /\ requested[w] <= T
              /\ executed[w] <= T - 1
              /\ iteration[w] <= T - 1
              /\ pc[w] = "step_returned" =>
                    (Skipped(step_result[w]) <=> requested[w] = T)
              /\ (pc[w] = "idle" /\ requested[w] = T) =>
                    /\ run[w] = "exited"
                    /\ executed[w] = T - 1
                    /\ Canonical(step_result[w])
        /\ it.st = "suspended" => it.i * it.len + it.pos = it.yielded
        /\ it.st = "ended" => (it.i = N /\ it.yielded = N * it.len)
        /\ (L = 10 /\ N = 2 /\ sz = 1 /\ args.global_batch_size = 2) =>
              /\ T = 11
              /\ it.i = 0 => executed[w] <= 5
              /\ it.i = 1 => (5 <= executed[w] /\ executed[w] <= 10 /\ requested[w] >= 6)
              /\ it.i = 2 => (executed[w] = 10 /\ requested[w] = 11)
              /\ executed[w] >= 6 => it.i >= 1

\* C11 as stated: whenever train_iters is derived from a dataset of known
\* length, the run is train_iters - 1 executed steps and then one skipped
\* step, with an epoch boundary at every full pass.
C11_DerivedRun == \A w \in Workers : Derived(w) => DerivedRun(w)

\* C11 amended: the same for max_epochs = N >= 1. (With max_epochs = 0 the
\* derived train_iters is 1 and the iterator never refuses data.)
C11_DerivedRunBounded ==
    \A w \in Workers : (Derived(w) /\ Truthy(args.max_epochs)) => DerivedRun(w)

\* C11 witness: the instance: 11 steps requested, 10 executed, the run ended
\* by step 11, the epoch index at 2.
C11_Witness ==
    \E w \in Workers :
        /\ given.train_iters = None
        /\ datasets.train = Sized(10)
        /\ args.max_epochs = Some(2)
        /\ args.micro_batch_size * args.data_parallel_size = 1
        /\ args.global_batch_size = 2
        /\ args.train_iters = Some(11)
        /\ run[w] = "exited"
        /\ requested[w] = 11
        /\ executed[w] = 10
        /\ train_data_iterator[w].i = 2

\* C11 witness of the first boundary: step 6 is under way, five steps
\* executed, the epoch index has just become 1.
C11_WitnessBoundary ==
    \E w \in Workers :
        /\ given.train_iters = None
        /\ datasets.train = Sized(10)
        /\ args.max_epochs = Some(2)
        /\ args.micro_batch_size * args.data_parallel_size = 1
        /\ args.global_batch_size = 2
        /\ pc[w] = "train_step"
        /\ executed[w] = 5
        /\ train_data_iterator[w].i = 1

\* C12: whenever train_iters is not given and the training dataset has no
\* length, or eval_iters is not given and a validation dataset without length
\* is there, initialization ends in the configuration error, no training step
\* was requested, and no collective call was made.
C12_FailsBeforeCollective ==
    \A w \in Workers :
        LET no_train_len == given.train_iters = None /\ ~HasLen(datasets.train)
            no_val_len == /\ given.eval_iters < 0
                          /\ datasets.val # NoDataset
                          /\ ~HasLen(datasets.val)
        IN  (pc[w] # "start" /\ (no_train_len \/ no_val_len)) =>
                /\ pc[w] = "config_error"
                /\ requested[w] = 0
                /\ collectives[w] = 0

\* C16: once the training iterator has ended, it stays as it is (no batch is
\* yielded), no step is executed, and every train_step that returns returns
\* the canonical skip result.
C16_EndedIsTerminal ==
    /\ [](\A w \in Workers :
            (EpochBoundReached(w) /\ pc[w] = "step_returned") =>
                Canonical(step_result[w]))
    /\ [][\A w \in Workers :
            EpochBoundReached(w) =>
               /\ train_data_iterator'[w] = train_data_iterator[w]
               /\ executed'[w] = executed[w]
               /\ pc'[w] = "step_returned" => Canonical(step_result'[w])]_vars

\* C16 witness: the run was told to exit, and MaxRetries further calls of
\* train_step have each returned the skip result.
C16_Witness ==
    \E w \in Workers :
        /\ EpochBoundReached(w)
        /\ run[w] = "exited"
        /\ pc[w] = "step_returned"
        /\ executed[w] >= 1
        /\ requested[w] = executed[w] + 1 + MaxRetries
        /\ Canonical(step_result[w])

\* A process that left evaluate by an exception or is stuck in the loader.
Failed(w) == pc[w] \in {"eval_raised", "eval_exhausted", "eval_unbound_local", "hung"}

\* C17: without a budget no process enters the reduction. With one, every
\* process that has not failed has entered it once per iteration; no process
\* enters a reduction after the one another process was aborted at; two
\* processes that returned made the same number of reductions and returned
\* the same way; and no process waits in a reduction that a process which has
\* returned never entered.
C17_SameReductions ==
    \A w \in Workers :
        /\ ~Truthy(args.exit_duration_in_mins) =>
              /\ reductions[w] = 0
              /\ pc[w] \notin {"all_reduce", "reduced"}
        /\ (Truthy(args.exit_duration_in_mins) /\ ~Failed(w)) =>
              reductions[w] = eval_iteration[w]
        /\ \A v \in Workers :
              pc[v] = "eval_returned" =>
                  /\ pc[w] # "all_reduce"
                  /\ Aborted(eval_result[v]) => reductions[w] <= reductions[v]
                  /\ pc[w] = "eval_returned" =>
                        /\ reductions[w] = reductions[v]
                        /\ Aborted(eval_result[w]) = Aborted(eval_result[v])

\* C17 witness: every process of the fleet went through two reductions and
\* returned not aborted.
C17_Witness ==
    /\ Cardinality(Workers) > 1
    /\ \A w \in Workers : Returned(w) /\ reductions[w] = 2

\* C17 witness of no budget: two iterations, no reduction.
C17_WitnessNoBudget ==
    /\ Cardinality(Workers) > 1
    /\ args.exit_duration_in_mins = None
    /\ \A w \in Workers : Returned(w) /\ eval_iteration[w] = 2 /\ reductions[w] = 0

====
